---- MODULE Spec2Model ----
(***************************************************************************)
(* Model of the study-deck page of src/index.tsx (the version that keeps   *)
(* a session: lines 184-740).  The state is the module-level state of the  *)
(* script (currentDeck, viewedCards, usedTerms, currentTopic,              *)
(* loadingInterval), the attributes of the page the handlers read or       *)
(* that the specification speaks of (the four busy flags,                  *)
(* the hidden class of the two deck buttons, the card elements with the    *)
(* index and topic their click handlers close over, the overview text,     *)
(* the status line and the ring label), the three localStorage slots and   *)
(* the requests that are awaiting the generative API.                      *)
(*                                                                         *)
(* The script runs on one event loop: a handler runs from its start to     *)
(* its first await as one step, and the continuation after the await runs  *)
(* as one step when the request settles.  Classes that only style the      *)
(* page and are never read (flipped, is-viewed, is-collapsed) are left     *)
(* out.  The text of the topic input is an input of handleGenerate: the   *)
(* user may have typed any text before the handler reads it.               *)
(* The page starts as performDeepClear resets it, with the two deck        *)
(* buttons hidden.                                                         *)
(*                                                                         *)
(* The intervals of the loading simulation are part of the state, each     *)
(* with the progress its callback closes over, kept in steps of            *)
(* 1 / StepsPerPercent of a percent.  The callback writes the ring label   *)
(* and the status line only, which no handler reads: Spec follows the      *)
(* handlers without the ticks, SimSpec follows generations with them,      *)
(* StudySpec the study of a large deck, LoadSpec the loads of a page from  *)
(* any contents of the storage, ReplaceSpec a stored deck that is replaced *)
(* while other requests are awaited, ThemeSpec the theme toggle (the class *)
(* of the body and the stored theme) beside generations.                   *)
(***************************************************************************)
EXTENDS Integers, Sequences, FiniteSets, TLC

\* Bounds of the model: requests issued and Enter timeouts pending, cards
\* of a deck in StudySpec, steps a percent of simulated progress is cut into.
MaxRequests == 2
MaxEnterPending == 1
MaxDeckSize == 200
StepsPerPercent == 10

----------------------------------------------------------------------------
\* Values

\* The JavaScript value undefined (a property the response left out).
Undefined == "<undefined>"

\* What the user can have in the topic input: nothing, blanks, or a subject.
TopicTexts == {"", " ", "bio", "chem"}

\* String.prototype.trim on the texts above.
Trim(s) == IF s = " " THEN "" ELSE s

\* String.prototype.toLowerCase on the terms the model draws.
ToLowerCase(t) ==
  CASE t = "Mitosis" -> "mitosis"
    [] t = "ATP" -> "atp"
    [] OTHER -> t

\* Flashcard: term and definition; a response may leave the term out.
Flashcard(term) == [term |-> term, definition |-> "def"]

\* The flashcards arrays the API answers with in the model: none, one card,
\* two cards in either subject order, and arrays with a card that has no
\* term, first or after a good one.
ResponseCards ==
  {<<>>,
   <<Flashcard("Mitosis")>>,
   <<Flashcard("ATP")>>,
   <<Flashcard("Mitosis"), Flashcard("ATP")>>,
   <<Flashcard(Undefined)>>,
   <<Flashcard("Mitosis"), Flashcard(Undefined)>>}

\* GenerationResponse.  present = FALSE stands for null (no deck); the
\* overview is the innerHTML of the overview panel, a sequence of the text
\* pieces appended to it; hasFlashcards = FALSE is an object without the
\* flashcards property.
NullDeck ==
  [present |-> FALSE, overview |-> <<>>, hasFlashcards |-> FALSE, flashcards |-> <<>>]
EmptyObject ==
  [present |-> TRUE, overview |-> <<Undefined>>, hasFlashcards |-> FALSE, flashcards |-> <<>>]
DeckOf(cards) ==
  [present |-> TRUE, overview |-> <<"Overview">>, hasFlashcards |-> TRUE, flashcards |-> cards]

\* What ai.models.generateContent can settle with: a rejection (network or
\* API error), or a result whose text is empty, is not JSON, or is JSON.
ApiResponses ==
  {[kind |-> k, obj |-> EmptyObject] : k \in {"reject", "empty", "malformed"}}
    \cup {[kind |-> "json", obj |-> DeckOf(cards)] :
            cards \in ResponseCards}

\* The text of a more-info answer (no JSON is asked for).
InfoResponses ==
  {[kind |-> "reject", text |-> ""], [kind |-> "text", text |-> ""],
   [kind |-> "text", text |-> "Insight"]}

\* JSON.parse(result.text || '{}'): whether it throws, and its value.
ParseThrows(resp) == resp.kind = "malformed"
ParseText(resp) == IF resp.kind = "json" THEN resp.obj ELSE EmptyObject

\* JSON.stringify / JSON.parse of a stored value: the text is the value
\* under a tag, so that a slot's text is never confused with a value.
Stringify(v) == <<"json", v>>
Parse(s) == s[2]

\* Texts of a slot that saveSession did not write: one that is not JSON
\* (JSON.parse throws a SyntaxError), and the JSON of an object where a
\* list is expected (new Set(...) throws a TypeError: not iterable).
NotJson(v) == <<"not json", v>>
ObjectJson(v) == <<"json of an object", v>>
SyntaxErrorIn(s) == s[1] = "not json"
NotIterable(s) == s[1] = "json of an object"

\* Array.from(set): the members, each once, in some order.
RECURSIVE ArrayFrom(_)
ArrayFrom(S) ==
  IF S = {} THEN <<>>
  ELSE LET x == CHOOSE y \in S : TRUE IN <<x>> \o ArrayFrom(S \ {x})

\* new Set(array)
NewSet(a) == {a[i] : i \in 1..Len(a)}

\* Number of cards at the head of the sequence that have a term:
\* card.term.toLowerCase() throws a TypeError at the first one that has not.
RECURSIVE TermPrefixLen(_)
TermPrefixLen(cards) ==
  IF cards = <<>> \/ Head(cards).term = Undefined THEN 0
  ELSE 1 + TermPrefixLen(Tail(cards))

LowerTerms(cards) == {ToLowerCase(cards[i].term) : i \in 1..Len(cards)}

\* Status line (errorMessage.textContent) and ring label (ringLabel.textContent).
StatusReady == [kind |-> "Ready to learn", v |-> 0, t |-> 0, detail |-> ""]
StatusMastery == [kind |-> "Mastery Achieved!", v |-> 0, t |-> 0, detail |-> ""]
StatusReviewed(v, t) == [kind |-> "Reviewed", v |-> v, t |-> t, detail |-> ""]
StatusApiError(detail) == [kind |-> "API Error", v |-> 0, t |-> 0, detail |-> detail]
RingAI == [text |-> "AI", pct |-> -1]
RingPercent(p) == [text |-> "%", pct |-> p]
RingNaN == [text |-> "NaN%", pct |-> -1]
RingInfinity == [text |-> "Infinity%", pct |-> -1]

\* The stages of startLoadingSimulation and the status line of a stage.
stages ==
  <<[threshold |-> 15, msg |-> "Connecting..."],
    [threshold |-> 35, msg |-> "Searching..."],
    [threshold |-> 60, msg |-> "Reasoning..."],
    [threshold |-> 85, msg |-> "Verifying..."],
    [threshold |-> 99, msg |-> "Polishing..."]>>
StatusStage(msg) == [kind |-> msg, v |-> 0, t |-> 0, detail |-> ""]

\* Math.min(99, ...) and progress < 80 of the interval callback, in percent.
ProgressCap == 99
SlowBelow == 80

\* Math.random() * 2 and Math.random() * 0.3, in steps: no increment at
\* all, or one of 1 or 1.5 percent, resp. of 0.1 or 0.2 percent.
LargeIncrements == {0, StepsPerPercent, StepsPerPercent + StepsPerPercent \div 2}
SmallIncrements == {0, StepsPerPercent \div 10, StepsPerPercent \div 5}
Increments(progress) ==
  IF progress < SlowBelow * StepsPerPercent THEN LargeIncrements ELSE SmallIncrements

\* progress + increment without the cap.
AdvanceUncapped(progress, increment) == progress + increment

\* progress = Math.min(99, progress + increment)
Advance(progress, increment) ==
  IF progress + increment > ProgressCap * StepsPerPercent
  THEN ProgressCap * StepsPerPercent
  ELSE progress + increment

\* Math.floor(progress)
Floor(progress) == progress \div StepsPerPercent

\* stages.find(s => progress <= s.threshold) || stages[stages.length - 1]
StageOf(progress) ==
  LET found == {i \in 1..Len(stages) : progress <= stages[i].threshold * StepsPerPercent}
  IN IF found = {} THEN stages[Len(stages)]
     ELSE stages[CHOOSE i \in found : \A j \in found : i <= j]

\* window.setInterval: one more interval, the progress of its callback at 0.
setInterval(timers, id) == timers \cup {[id |-> id, progress |-> 0]}

\* The clearInterval left out.
keepInterval(timers, id) == timers

\* clearInterval(id); no interval has the id 0 that stands for null.
clearInterval(timers, id) == {t \in timers : t.id # id}

\* error.message of what the try block of a handler can throw.
ErrNetwork == "request failed"
ErrSyntax == "SyntaxError: not valid JSON"
ErrType == "TypeError: cannot read properties of undefined"

\* A localStorage item; present = FALSE is an absent one (getItem returns
\* null), whose text is never read.
Item(v) == [present |-> TRUE, text |-> Stringify(v)]
NoSessionItem == [present |-> FALSE, text |-> Stringify([topic |-> "", deck |-> NullDeck])]
NoListItem == [present |-> FALSE, text |-> Stringify(<<>>)]
EmptyStorage ==
  [session |-> NoSessionItem, viewed |-> NoListItem, used_terms |-> NoListItem]

----------------------------------------------------------------------------
VARIABLES
  generateDisabled,    \* generateButton.disabled
  regenerateDisabled,  \* regenerateCardsButton.disabled
  moreInfoDisabled,    \* moreInfoButton.disabled
  tenMoreDisabled,     \* tenMoreButton.disabled
  regenerateHidden,    \* regenerateCardsButton has class hidden
  tenMoreHidden,       \* tenMoreButton has class hidden
  viewedCards,         \* Set<number>
  currentDeck,         \* GenerationResponse | null
  currentTopic,        \* string
  loadingInterval,     \* id of the interval of the loading simulation, 0 = null
  usedTerms,           \* Set<string>
  flashcardsContainer, \* the card elements: <<[card, index, topic], ...>>
  overviewText,        \* overviewText.innerHTML
  errorMessage,        \* status line
  ringLabel,           \* ring label
  localStorage,        \* [session, viewed, used_terms]
  bodyClassName,       \* document.body.className
  study_deck_theme,    \* the localStorage item of the theme
  intervals,           \* the intervals set and not cleared: [id, progress]
  inflight,            \* the requests awaiting the API, each with the
                       \* forbid-reuse line of its system instruction and
                       \* whether the deck it was issued on was replaced since
  issued,              \* number of requests issued so far
  enterPending,        \* 150 ms timeouts set by the Enter key, not yet fired
  lastOp,              \* the handler of the script that ran last (history)
  lastSaved            \* what saveSession was last given to store (history)

page == <<generateDisabled, regenerateDisabled, moreInfoDisabled,
          tenMoreDisabled, regenerateHidden, tenMoreHidden, flashcardsContainer,
          overviewText, errorMessage, ringLabel>>
session == <<viewedCards, currentDeck, currentTopic, loadingInterval, usedTerms>>
theme == <<bodyClassName, study_deck_theme>>
vars == <<page, session, localStorage, theme, intervals, inflight, issued, enterPending,
          lastOp, lastSaved>>

\* History record of a step: the handler that ran (op), the kind of request
\* it issued or whose settlement it handled and the kind of answer, the
\* parsed answer when the handler ran to its end (data), whether it called
\* saveSession with a deck (wrote), the index of the card clicked (index),
\* the current topic a call of handleGenerate that issued a request started
\* with (topicBefore),
\* and one fact about what the handler started with (had): for a call of
\* handleGenerate that the topic input was blank, for a finished
\* generation that cards were viewed, for clear that a session was stored,
\* for a load that it follows such a clear at once.
NoOp ==
  [op |-> "", kind |-> "", answer |-> "", data |-> NullDeck, wrote |-> FALSE,
   index |-> -1, had |-> FALSE, topicBefore |-> ""]
Op(name) == [NoOp EXCEPT !.op = name]
Settled(name, r, resp) == [NoOp EXCEPT !.op = name, !.kind = r.kind, !.answer = resp.kind]

----------------------------------------------------------------------------
\* Helpers of the script

\* saveSession that forgets the viewed slot.
saveSessionWithoutViewed(topic, deck, viewed, used, storage) ==
  IF deck.present
  THEN [storage EXCEPT !.session = Item([topic |-> topic, deck |-> deck]),
                       !.used_terms = Item(ArrayFrom(used))]
  ELSE storage

\* saveSession(topic): the three slots after it.
saveSession(topic, deck, viewed, used, storage) ==
  IF deck.present
  THEN [session |-> Item([topic |-> topic, deck |-> deck]),
        viewed |-> Item(ArrayFrom(viewed)),
        used_terms |-> Item(ArrayFrom(used))]
  ELSE storage

\* num / den rounded to the nearest integer, a half rounded up.
Round(num, den) == (2 * num + den) \div (2 * den)

\* The pairs <<size, total>>, among those of up to MaxDeckSize + 1 cards,
\* whose percent is an integer and a half while the double
\* (size / total) * 100 is just below it: 23 / 40 gives 57.49999999999999.
BelowHalf ==
  {<<23, 40>>, <<46, 80>>, <<69, 120>>, <<92, 160>>,
   <<29, 200>>, <<57, 200>>, <<113, 200>>, <<115, 200>>}

\* Math.round((viewedCards.size / total) * 100) as the ring label shows it.
PercentLabel(size, total) ==
  IF total = 0
  THEN (IF size = 0 THEN RingNaN ELSE RingInfinity)
  ELSE RingPercent(IF <<size, total>> \in BelowHalf
                   THEN Round(100 * size, total) - 1
                   ELSE Round(100 * size, total))

\* updateStudyProgress(): <<ring label, status line>> after it.
updateStudyProgress(deck, viewed, ring, status) ==
  IF ~deck.present THEN <<ring, status>>
  ELSE LET total == Len(deck.flashcards)
           size == Cardinality(viewed)
       IN <<PercentLabel(size, total),
            IF size = total THEN StatusMastery ELSE StatusReviewed(size, total)>>

\* createCardElement(card, index, topic): the element and what its click
\* handler closes over.
createCardElement(card, index, topic) ==
  [card |-> card, index |-> index, topic |-> topic]

\* renderDeck that numbers the cards from 1.
renderDeckFromOne(data, topic) ==
  [i \in 1..Len(data.flashcards) |-> createCardElement(data.flashcards[i], i, topic)]

\* renderDeck(data, topic): the card elements it puts in the container.
renderDeck(data, topic) ==
  [i \in 1..Len(data.flashcards) |-> createCardElement(data.flashcards[i], i - 1, topic)]

\* History of saveSession: the values it was last asked to store, none
\* when the session was removed since.
NothingSaved == [written |-> FALSE, topic |-> "", deck |-> NullDeck, viewed |-> {}, used |-> {}]
Saved(topic, deck, viewed, used, before) ==
  IF deck.present
  THEN [written |-> TRUE, topic |-> topic, deck |-> deck, viewed |-> viewed, used |-> used]
  ELSE before

\* The clear() left out.
keepViewed(viewed) == viewed

\* viewedCards.clear()
clearViewed(viewed) == {}

\* The has() test left out.
neverViewed(viewed, index) == FALSE

\* viewedCards.has(index) in the click handler of a card
hasViewed(viewed, index) == index \in viewed

\* unshift in place of push.
unshiftCards(flashcards, newCards) == newCards \o flashcards

\* currentDeck.flashcards after the pushes of handleTenMore
pushCards(flashcards, newCards) == flashcards \o newCards

\* The removeItem of the session slot left out.
removeListsOnly(storage) ==
  [storage EXCEPT !.viewed = NoListItem, !.used_terms = NoListItem]

\* The three removeItem calls of performDeepClear
removeSession(storage) == EmptyStorage

\* array.join(', '): the pieces of the text, the members and the commas.
RECURSIVE Join(_)
Join(a) ==
  IF Len(a) <= 1 THEN a ELSE <<Head(a), ", ">> \o Join(Tail(a))

\* The openings of the two forbid-reuse clauses.
ForbidGenerated ==
  "DO NOT use or repeat the following terms as they have already been generated for this user: "
ForbidThese == "DO NOT use or repeat any of these terms: "

\* The clause naming the first of the terms only.
avoidFirstTerm(used) ==
  IF Len(ArrayFrom(used)) > 0
  THEN <<ForbidGenerated, Head(ArrayFrom(used)), ".">>
  ELSE <<>>

\* avoidListStr of handleGenerate, the line of the system instruction that
\* forbids reuse: the pieces of its text, none for the empty string.
avoidListStr(used) ==
  IF Len(ArrayFrom(used)) > 0
  THEN <<ForbidGenerated>> \o Join(ArrayFrom(used)) \o <<".">>
  ELSE <<>>

\* avoidListStr of handleTenMore
avoidListStrTenMore(used) == <<ForbidThese>> \o Join(ArrayFrom(used)) \o <<".">>

\* The flag cleared at the end of the try block, not in a finally block.
clearedInTry(threw) == threw

\* finally { button.disabled = false }: the disabled attribute of the
\* control after the handler, whether or not its try block threw.
clearedInFinally(threw) == FALSE

\* The slot is never read.
restoreNothing(item, before) == before

\* if (savedViewed) viewedCards = new Set(JSON.parse(savedViewed)), and the
\* same for the used terms: the set after the statement, before being the
\* set the script starts with.
restoreSet(item, before) ==
  IF item.present THEN NewSet(Parse(item.text)) ELSE before

\* The class of the body before init has run: the script reads the class
\* only in the click handler of the theme toggle, after init has set it.
MarkupClass == ""

\* The item of the theme when nothing has set it, and when it holds a text.
NoThemeItem == [present |-> FALSE, text |-> ""]
ThemeItem(text) == [present |-> TRUE, text |-> text]

\* localStorage.getItem('study_deck_theme') || 'dark-mode'
savedTheme(item) ==
  IF item.present /\ item.text # "" THEN item.text ELSE "dark-mode"

\* current === 'dark-mode' ? 'light-mode' : 'dark_mode'
nextTheme(current) ==
  IF current = "dark-mode" THEN "light-mode" ELSE "dark_mode"

\* The page before any script has run (the values performDeepClear resets to).
InitialOverview == <<"Ready for a subject entry...">>

----------------------------------------------------------------------------
Init ==
  /\ generateDisabled = FALSE
  /\ regenerateDisabled = FALSE
  /\ moreInfoDisabled = FALSE
  /\ tenMoreDisabled = FALSE
  /\ regenerateHidden = TRUE
  /\ tenMoreHidden = TRUE
  /\ viewedCards = {}
  /\ currentDeck = NullDeck
  /\ currentTopic = ""
  /\ loadingInterval = 0
  /\ usedTerms = {}
  /\ flashcardsContainer = <<>>
  /\ overviewText = InitialOverview
  /\ errorMessage = StatusReady
  /\ ringLabel = RingAI
  /\ localStorage = EmptyStorage
  /\ bodyClassName = savedTheme(NoThemeItem)
  /\ study_deck_theme = NoThemeItem
  /\ intervals = {}
  /\ inflight = {}
  /\ issued = 0
  /\ enterPending = 0
  /\ lastOp = Op("start")
  /\ lastSaved = NothingSaved

\* A handler that returns at once: nothing but the history changes.
Returns(name) ==
  /\ lastOp' = Op(name)
  /\ UNCHANGED <<page, session, localStorage, theme, intervals, inflight, issued, lastSaved>>

\* topicInput.value || currentTopic: the trim left out.
topicUntrimmed(text, current) == IF text # "" THEN text ELSE current

\* const topic = topicInput.value.trim() || currentTopic
topicOf(text, current) == IF Trim(text) # "" THEN Trim(text) ELSE current

\* handleGenerate returns at once: nothing but the history changes.
GenerateReturns(name, text) ==
  /\ lastOp' = [Op(name) EXCEPT !.had = (Trim(text) = "")]
  /\ UNCHANGED <<page, session, localStorage, theme, intervals, inflight, issued, lastSaved>>

\* handleGenerate(isRegenerate) up to its await; text is topicInput.value,
\* what the user has in the topic input when the handler runs.
handleGenerate(isRegenerate, text) ==
  LET topic == topicOf(text, currentTopic) IN
  IF topic = "" THEN GenerateReturns("generate: no subject", text)
  ELSE IF generateDisabled \/ regenerateDisabled THEN GenerateReturns("generate: busy", text)
  ELSE
    LET used == IF isRegenerate THEN usedTerms ELSE {}
        req == [id |-> issued + 1,
                kind |-> IF isRegenerate THEN "regenerate" ELSE "generate",
                topic |-> topic, usedAtInvoke |-> usedTerms,
                avoidListStr |-> avoidListStr(used), deckReplaced |-> FALSE]
    IN
    /\ issued < MaxRequests
    /\ regenerateDisabled' = isRegenerate
    /\ generateDisabled' = ~isRegenerate
    /\ usedTerms' = used
    /\ loadingInterval' = req.id
    /\ intervals' = setInterval(intervals, req.id)
    /\ ringLabel' = RingPercent(0)
    /\ currentTopic' = topic
    /\ inflight' = inflight \cup {req}
    /\ issued' = issued + 1
    /\ lastOp' = [Op("generate: issued") EXCEPT !.kind = req.kind,
                                                 !.had = (Trim(text) = ""),
                                                 !.topicBefore = currentTopic]
    /\ UNCHANGED <<moreInfoDisabled, tenMoreDisabled, regenerateHidden,
                   tenMoreHidden, flashcardsContainer, overviewText, errorMessage,
                   viewedCards, currentDeck, localStorage, theme, lastSaved>>

\* A click on the Generate button (a disabled button takes no click).
GenerateClick(text) ==
  /\ ~generateDisabled
  /\ handleGenerate(FALSE, text)
  /\ UNCHANGED enterPending

\* A click on the Regenerate button (shown once a deck exists).
RegenerateClick(text) ==
  /\ ~regenerateDisabled
  /\ ~regenerateHidden
  /\ handleGenerate(TRUE, text)
  /\ UNCHANGED enterPending

\* Enter in the topic input: a 150 ms timeout that will call handleGenerate.
EnterKey ==
  /\ enterPending < MaxEnterPending
  /\ enterPending' = enterPending + 1
  /\ lastOp' = Op("enter")
  /\ UNCHANGED <<page, session, localStorage, theme, intervals, inflight, issued, lastSaved>>

\* The timeout fires.
EnterTimeout(text) ==
  /\ enterPending > 0
  /\ enterPending' = enterPending - 1
  /\ handleGenerate(FALSE, text)

\* currentDeck = data where there was a deck, seen from the requests still
\* awaited: the deck that was current when they were issued is no longer
\* the current one (history).
MarkReplaced(requests) == {[x EXCEPT !.deckReplaced = TRUE] : x \in requests}

\* The continuation of handleGenerate when its request settles with resp:
\* the rest of the try block, the catch block and the finally block.
GenerateSettle(r, resp) ==
  LET data == ParseText(resp)
      cards == data.flashcards
      good == TermPrefixLen(cards)
      message ==
        CASE resp.kind = "reject" -> ErrNetwork
          [] ParseThrows(resp) -> ErrSyntax
          [] OTHER -> ErrType
      threw == \/ resp.kind = "reject"
               \/ ParseThrows(resp)
               \/ ~data.hasFlashcards
               \/ good < Len(cards)
      used == IF resp.kind = "reject" \/ ParseThrows(resp) \/ ~data.hasFlashcards
              THEN usedTerms
              ELSE usedTerms \cup LowerTerms(SubSeq(cards, 1, good))
      viewed == clearViewed(viewedCards)
      progress == updateStudyProgress(data, viewed, ringLabel, errorMessage)
  IN
  /\ r \in inflight
  /\ r.kind \in {"generate", "regenerate"}
  /\ inflight' = IF threw \/ ~currentDeck.present
                 THEN inflight \ {r}
                 ELSE MarkReplaced(inflight \ {r})
  /\ usedTerms' = used
  /\ intervals' = clearInterval(intervals, loadingInterval)
  /\ loadingInterval' = 0
  /\ generateDisabled' = clearedInFinally(threw)
  /\ regenerateDisabled' = clearedInFinally(threw)
  /\ IF threw
     THEN /\ errorMessage' = StatusApiError(message)
          /\ lastOp' = Settled("generate: failed", r, resp)
          /\ UNCHANGED <<currentDeck, viewedCards, flashcardsContainer, overviewText,
                         ringLabel, localStorage, lastSaved, regenerateHidden,
                         tenMoreHidden>>
     ELSE /\ currentDeck' = data
          /\ viewedCards' = viewed
          /\ flashcardsContainer' = renderDeck(data, r.topic)
          /\ overviewText' = data.overview
          /\ ringLabel' = progress[1]
          /\ errorMessage' = progress[2]
          /\ localStorage' = saveSession(r.topic, data, viewed, used, localStorage)
          /\ lastSaved' = Saved(r.topic, data, viewed, used, lastSaved)
          /\ regenerateHidden' = FALSE
          /\ tenMoreHidden' = FALSE
          /\ lastOp' = [Settled("generate: done", r, resp) EXCEPT
                         !.data = data, !.wrote = TRUE, !.had = viewedCards # {}]
  /\ UNCHANGED <<moreInfoDisabled, tenMoreDisabled, currentTopic, theme, issued,
                 enterPending>>

\* A click on the card element at position k of the container.
CardClick(k) ==
  LET el == flashcardsContainer[k]
      viewed == viewedCards \cup {el.index}
      progress == updateStudyProgress(currentDeck, viewed, ringLabel, errorMessage)
  IN
  /\ k \in 1..Len(flashcardsContainer)
  /\ IF hasViewed(viewedCards, el.index)
     THEN /\ lastOp' = [Op("card click") EXCEPT !.index = el.index]
          /\ UNCHANGED <<viewedCards, ringLabel, errorMessage, localStorage, lastSaved>>
     ELSE /\ viewedCards' = viewed
          /\ ringLabel' = progress[1]
          /\ errorMessage' = progress[2]
          /\ localStorage' = saveSession(el.topic, currentDeck, viewed, usedTerms, localStorage)
          /\ lastSaved' = Saved(el.topic, currentDeck, viewed, usedTerms, lastSaved)
          /\ lastOp' = [Op("card click") EXCEPT !.index = el.index,
                                                !.wrote = currentDeck.present]
  /\ UNCHANGED <<generateDisabled, regenerateDisabled, moreInfoDisabled,
                 tenMoreDisabled, regenerateHidden, tenMoreHidden, flashcardsContainer,
                 overviewText, currentDeck, currentTopic, loadingInterval, usedTerms,
                 theme, intervals, inflight, issued, enterPending>>

\* handleTenMore up to its await.
TenMoreClick ==
  /\ ~tenMoreDisabled
  /\ ~tenMoreHidden
  /\ IF currentTopic = "" \/ ~currentDeck.present
     THEN Returns("ten more: nothing to extend")
     ELSE LET req == [id |-> issued + 1, kind |-> "tenMore", topic |-> currentTopic,
                      usedAtInvoke |-> usedTerms,
                      avoidListStr |-> avoidListStrTenMore(usedTerms),
                      deckReplaced |-> FALSE]
          IN /\ issued < MaxRequests
             /\ tenMoreDisabled' = TRUE
             /\ inflight' = inflight \cup {req}
             /\ issued' = issued + 1
             /\ lastOp' = [Op("ten more: issued") EXCEPT !.kind = req.kind]
             /\ UNCHANGED <<generateDisabled, regenerateDisabled,
                            moreInfoDisabled, regenerateHidden, tenMoreHidden,
                            flashcardsContainer, overviewText, errorMessage, ringLabel,
                            session, localStorage, theme, intervals, lastSaved>>
  /\ UNCHANGED enterPending

\* The continuation of handleTenMore when its request settles with resp.
TenMoreSettle(r, resp) ==
  LET data == ParseText(resp)
      newCards == data.flashcards
      good == TermPrefixLen(newCards)
      threwBefore == resp.kind = "reject" \/ ParseThrows(resp) \/ ~currentDeck.present
      startIndex == Len(currentDeck.flashcards)
      \* the cards pushed: all, or those up to the first one without a term
      pushed == SubSeq(newCards, 1, IF good < Len(newCards) THEN good + 1 ELSE good)
      deck == [currentDeck EXCEPT !.flashcards = pushCards(@, pushed)]
      used == usedTerms \cup LowerTerms(SubSeq(newCards, 1, good))
      elements == [i \in 1..good |->
                     createCardElement(newCards[i], startIndex + i - 1, currentTopic)]
      progress == updateStudyProgress(deck, viewedCards, ringLabel, errorMessage)
  IN
  /\ r \in inflight
  /\ r.kind = "tenMore"
  /\ inflight' = inflight \ {r}
  /\ tenMoreDisabled' = clearedInFinally(threwBefore \/ good < Len(newCards))
  /\ IF threwBefore
     THEN /\ lastOp' = Settled("ten more: failed", r, resp)
          /\ UNCHANGED <<currentDeck, usedTerms, flashcardsContainer, ringLabel,
                         errorMessage, localStorage, lastSaved>>
     ELSE /\ currentDeck' = deck
          /\ usedTerms' = used
          /\ flashcardsContainer' = flashcardsContainer \o elements
          /\ IF good < Len(newCards)
             THEN /\ lastOp' = Settled("ten more: failed", r, resp)
                  /\ UNCHANGED <<ringLabel, errorMessage, localStorage, lastSaved>>
             ELSE /\ ringLabel' = progress[1]
                  /\ errorMessage' = progress[2]
                  /\ localStorage' =
                       saveSession(currentTopic, deck, viewedCards, used, localStorage)
                  /\ lastSaved' = Saved(currentTopic, deck, viewedCards, used, lastSaved)
                  /\ lastOp' = [Settled("ten more: done", r, resp) EXCEPT
                                 !.data = data, !.wrote = TRUE]
  /\ UNCHANGED <<generateDisabled, regenerateDisabled, moreInfoDisabled,
                 regenerateHidden, tenMoreHidden, overviewText, viewedCards, currentTopic,
                 loadingInterval, theme, intervals, issued, enterPending>>

\* handleMoreInfo up to its await.
MoreInfoClick ==
  /\ ~moreInfoDisabled
  /\ IF currentTopic = ""
     THEN Returns("more info: no subject")
     ELSE LET req == [id |-> issued + 1, kind |-> "moreInfo", topic |-> currentTopic,
                      usedAtInvoke |-> usedTerms, avoidListStr |-> <<>>,
                      deckReplaced |-> FALSE]
          IN /\ issued < MaxRequests
             /\ moreInfoDisabled' = TRUE
             /\ inflight' = inflight \cup {req}
             /\ issued' = issued + 1
             /\ lastOp' = [Op("more info: issued") EXCEPT !.kind = req.kind]
             /\ UNCHANGED <<generateDisabled, regenerateDisabled,
                            tenMoreDisabled, regenerateHidden, tenMoreHidden,
                            flashcardsContainer, overviewText, errorMessage, ringLabel,
                            session, localStorage, theme, intervals, lastSaved>>
  /\ UNCHANGED enterPending

\* The continuation of handleMoreInfo when its request settles with resp.
MoreInfoSettle(r, resp) ==
  LET html == Append(overviewText, resp.text)
      deck == [currentDeck EXCEPT !.overview = html]
  IN
  /\ r \in inflight
  /\ r.kind = "moreInfo"
  /\ inflight' = inflight \ {r}
  /\ moreInfoDisabled' = clearedInFinally(resp.kind = "reject")
  /\ IF resp.kind = "reject"
     THEN /\ lastOp' = Settled("more info: failed", r, resp)
          /\ UNCHANGED <<overviewText, currentDeck, localStorage, lastSaved>>
     ELSE /\ overviewText' = html
          /\ IF currentDeck.present
             THEN /\ currentDeck' = deck
                  /\ localStorage' =
                       saveSession(currentTopic, deck, viewedCards, usedTerms, localStorage)
                  /\ lastSaved' = Saved(currentTopic, deck, viewedCards, usedTerms, lastSaved)
             ELSE UNCHANGED <<currentDeck, localStorage, lastSaved>>
          /\ lastOp' = [Settled("more info: done", r, resp) EXCEPT !.wrote = currentDeck.present]
  /\ UNCHANGED <<generateDisabled, regenerateDisabled, tenMoreDisabled,
                 regenerateHidden, tenMoreHidden, flashcardsContainer, errorMessage,
                 ringLabel, viewedCards, currentTopic, loadingInterval, usedTerms,
                 theme, intervals, issued, enterPending>>

\* A click on the clear button.
performDeepClear ==
  /\ localStorage' = removeSession(localStorage)
  /\ lastSaved' = NothingSaved
  /\ viewedCards' = {}
  /\ usedTerms' = {}
  /\ currentDeck' = NullDeck
  /\ currentTopic' = ""
  /\ intervals' = clearInterval(intervals, loadingInterval)
  /\ loadingInterval' = 0
  /\ flashcardsContainer' = <<>>
  /\ overviewText' = InitialOverview
  /\ errorMessage' = StatusReady
  /\ ringLabel' = RingAI
  /\ regenerateHidden' = TRUE
  /\ tenMoreHidden' = TRUE
  /\ generateDisabled' = FALSE
  /\ lastOp' = [Op("clear") EXCEPT !.had = localStorage.session.present]
  /\ UNCHANGED <<regenerateDisabled, moreInfoDisabled, tenMoreDisabled, theme, inflight,
                 issued, enterPending>>

\* The page is loaded again: the script starts afresh (nothing of the old
\* page is left, its requests, timeouts and intervals included) and runs
\* init().  thrown is the place at which the try block of init throws
\* (0: nowhere): 1 JSON.parse of the session, 2 the viewed list, 3 the
\* used terms, 4 renderDeck reading data.overview of a deck that is
\* missing, 5 renderDeck reading data.flashcards.length of a deck without
\* flashcards.  What was assigned before the throw stays.
init ==
  LET saved == localStorage.session
      savedViewed == localStorage.viewed
      savedUsedTerms == localStorage.used_terms
      data == Parse(saved.text)
      thrown ==
        CASE SyntaxErrorIn(saved.text) -> 1
          [] /\ savedViewed.present
             /\ (SyntaxErrorIn(savedViewed.text) \/ NotIterable(savedViewed.text)) -> 2
          [] /\ savedUsedTerms.present
             /\ (SyntaxErrorIn(savedUsedTerms.text) \/ NotIterable(savedUsedTerms.text)) -> 3
          [] ~data.deck.present -> 4
          [] ~data.deck.hasFlashcards -> 5
          [] OTHER -> 0
      viewed == IF thrown \notin {1, 2} THEN restoreSet(savedViewed, {}) ELSE {}
      used == IF thrown \notin {1, 2, 3} THEN restoreSet(savedUsedTerms, {}) ELSE {}
      progress == updateStudyProgress(data.deck, viewed, RingAI, StatusReady)
  IN
  /\ generateDisabled' = FALSE
  /\ regenerateDisabled' = FALSE
  /\ moreInfoDisabled' = FALSE
  /\ tenMoreDisabled' = FALSE
  /\ loadingInterval' = 0
  /\ intervals' = {}
  /\ inflight' = {}
  /\ enterPending' = 0
  /\ IF saved.present
     THEN /\ viewedCards' = viewed
          /\ usedTerms' = used
          /\ currentDeck' = IF thrown \in {1, 2, 3} THEN NullDeck ELSE data.deck
          /\ currentTopic' = IF thrown \in {1, 2, 3} THEN "" ELSE data.topic
          /\ flashcardsContainer' =
               IF thrown = 0 THEN renderDeck(data.deck, data.topic) ELSE <<>>
          /\ overviewText' =
               IF thrown \in {0, 5} THEN data.deck.overview ELSE InitialOverview
          /\ ringLabel' = IF thrown = 0 THEN progress[1] ELSE RingAI
          /\ errorMessage' = IF thrown = 0 THEN progress[2] ELSE StatusReady
          /\ regenerateHidden' = (thrown # 0)
          /\ tenMoreHidden' = (thrown # 0)
     ELSE /\ viewedCards' = {}
          /\ usedTerms' = {}
          /\ currentDeck' = NullDeck
          /\ currentTopic' = ""
          /\ flashcardsContainer' = <<>>
          /\ overviewText' = InitialOverview
          /\ ringLabel' = RingAI
          /\ errorMessage' = StatusReady
          /\ regenerateHidden' = TRUE
          /\ tenMoreHidden' = TRUE
  /\ bodyClassName' = savedTheme(study_deck_theme)
  /\ lastOp' = [Op("load") EXCEPT !.had = (lastOp.op = "clear" /\ lastOp.had)]
  /\ UNCHANGED <<localStorage, study_deck_theme, lastSaved, issued>>

\* A click on the theme toggle.
themeToggle ==
  /\ bodyClassName' = nextTheme(bodyClassName)
  /\ study_deck_theme' = ThemeItem(nextTheme(bodyClassName))
  /\ lastOp' = Op("theme toggle")
  /\ UNCHANGED <<page, session, localStorage, intervals, inflight, issued, enterPending,
                 lastSaved>>

\* The callback of the interval t runs; increment is what the random
\* number makes of it.
Tick(t, increment) ==
  LET progress == Advance(t.progress, increment) IN
  /\ t \in intervals
  /\ increment \in Increments(t.progress)
  /\ intervals' = (intervals \ {t}) \cup {[t EXCEPT !.progress = progress]}
  /\ ringLabel' = RingPercent(Floor(progress))
  /\ errorMessage' = StatusStage(StageOf(progress).msg)
  /\ lastOp' = Op("tick")
  /\ UNCHANGED <<generateDisabled, regenerateDisabled, moreInfoDisabled, tenMoreDisabled,
                 regenerateHidden, tenMoreHidden, flashcardsContainer, overviewText,
                 session, localStorage, theme, inflight, issued, enterPending, lastSaved>>

----------------------------------------------------------------------------
Next ==
  \/ \E text \in TopicTexts : GenerateClick(text)
  \/ \E text \in TopicTexts : RegenerateClick(text)
  \/ EnterKey
  \/ \E text \in TopicTexts : EnterTimeout(text)
  \/ \E r \in inflight : \E resp \in ApiResponses : GenerateSettle(r, resp)
  \/ \E k \in 1..Len(flashcardsContainer) : CardClick(k)
  \/ TenMoreClick
  \/ \E r \in inflight : \E resp \in ApiResponses : TenMoreSettle(r, resp)
  \/ MoreInfoClick
  \/ \E r \in inflight : \E resp \in InfoResponses : MoreInfoSettle(r, resp)
  \/ performDeepClear
  \/ init

Spec == Init /\ [][Next]_vars

----------------------------------------------------------------------------
\* Generations with the ticks of the loading simulation: generate and
\* regenerate on one subject or with the topic input left empty, answers
\* that fail or bring one card, clicks on the cards, clear and loads of
\* the page.

SimTexts == {"", "bio"}
SimResponses ==
  {resp \in ApiResponses :
     resp.kind = "reject" \/ resp.obj.flashcards = <<Flashcard("Mitosis")>>}

SimNext ==
  \/ \E text \in SimTexts : GenerateClick(text)
  \/ \E text \in SimTexts : RegenerateClick(text)
  \/ \E r \in inflight : \E resp \in SimResponses : GenerateSettle(r, resp)
  \/ \E k \in 1..Len(flashcardsContainer) : CardClick(k)
  \/ \E t \in intervals : \E increment \in Increments(t.progress) : Tick(t, increment)
  \/ performDeepClear
  \/ init

SimSpec == Init /\ [][SimNext]_vars

----------------------------------------------------------------------------
\* Loads of a page whose storage holds whatever an earlier run, an
\* interrupted write or another writer left in the three slots, then clicks
\* on the cards, clear and further loads.

StoredSessions ==
  {NoSessionItem,
   [present |-> TRUE, text |-> NotJson([topic |-> "", deck |-> NullDeck])],
   Item([topic |-> "bio", deck |-> NullDeck]),
   Item([topic |-> "bio", deck |-> EmptyObject]),
   Item([topic |-> "bio", deck |-> DeckOf(<<Flashcard("Mitosis")>>)]),
   Item([topic |-> "bio", deck |-> DeckOf(<<Flashcard("Mitosis"), Flashcard("ATP")>>)])}

StoredLists(lists) ==
  {NoListItem,
   [present |-> TRUE, text |-> NotJson(<<>>)],
   [present |-> TRUE, text |-> ObjectJson(<<>>)]}
    \cup {Item(list) : list \in lists}

LoadInit ==
  /\ generateDisabled = FALSE
  /\ regenerateDisabled = FALSE
  /\ moreInfoDisabled = FALSE
  /\ tenMoreDisabled = FALSE
  /\ regenerateHidden = TRUE
  /\ tenMoreHidden = TRUE
  /\ viewedCards = {}
  /\ currentDeck = NullDeck
  /\ currentTopic = ""
  /\ loadingInterval = 0
  /\ usedTerms = {}
  /\ flashcardsContainer = <<>>
  /\ overviewText = InitialOverview
  /\ errorMessage = StatusReady
  /\ ringLabel = RingAI
  /\ localStorage \in
       [session : StoredSessions,
        viewed : StoredLists({<<>>, <<0>>, <<0, 1>>}),
        used_terms : StoredLists({<<>>, <<"mitosis">>, <<"mitosis", "atp">>})]
  /\ bodyClassName = MarkupClass
  /\ study_deck_theme = NoThemeItem
  /\ intervals = {}
  /\ inflight = {}
  /\ issued = 0
  /\ enterPending = 0
  /\ lastOp = Op("start")
  /\ lastSaved = NothingSaved

LoadNext ==
  \/ init
  \/ \E k \in 1..Len(flashcardsContainer) : CardClick(k)
  \/ performDeepClear

LoadSpec == LoadInit /\ [][LoadNext]_vars

----------------------------------------------------------------------------
\* Studying a deck of up to MaxDeckSize cards: the page right after a
\* generation on 'bio' was answered with the deck, then clicks on the cards
\* in their order (or on the first card again) and loads of the page.

StudyCards(n) == [i \in 1..n |-> Flashcard("Mitosis")]

StudyInit ==
  \E n \in 1..MaxDeckSize :
    LET data == DeckOf(StudyCards(n))
        used == LowerTerms(data.flashcards)
        progress == updateStudyProgress(data, {}, RingPercent(0), StatusReady)
    IN
    /\ generateDisabled = FALSE
    /\ regenerateDisabled = FALSE
    /\ moreInfoDisabled = FALSE
    /\ tenMoreDisabled = FALSE
    /\ regenerateHidden = FALSE
    /\ tenMoreHidden = FALSE
    /\ viewedCards = {}
    /\ currentDeck = data
    /\ currentTopic = "bio"
    /\ loadingInterval = 0
    /\ usedTerms = used
    /\ flashcardsContainer = renderDeck(data, "bio")
    /\ overviewText = data.overview
    /\ ringLabel = progress[1]
    /\ errorMessage = progress[2]
    /\ localStorage = saveSession("bio", data, {}, used, EmptyStorage)
    /\ bodyClassName = savedTheme(NoThemeItem)
    /\ study_deck_theme = NoThemeItem
    /\ intervals = {}
    /\ inflight = {}
    /\ issued = 1
    /\ enterPending = 0
    /\ lastOp = [Op("generate: done") EXCEPT
                   !.kind = "generate", !.answer = "json", !.data = data, !.wrote = TRUE]
    /\ lastSaved = Saved("bio", data, {}, used, NothingSaved)

StudyNext ==
  \/ \E k \in {1, Cardinality(viewedCards) + 1} : CardClick(k)
  \/ init

StudySpec == StudyInit /\ [][StudyNext]_vars

----------------------------------------------------------------------------
\* A deck replaced while other requests are awaited: the page is loaded
\* with the session of a deck of one card on 'bio' in the storage, then
\* extend, more info, generate on 'chem' and regenerate, answers that fail
\* or bring one card, clicks on the cards and further loads.

ReplaceTexts == {"", "chem"}
ReplaceResponses ==
  {resp \in ApiResponses :
     resp.kind = "reject" \/ resp.obj.flashcards = <<Flashcard("ATP")>>}

ReplaceInit ==
  /\ generateDisabled = FALSE
  /\ regenerateDisabled = FALSE
  /\ moreInfoDisabled = FALSE
  /\ tenMoreDisabled = FALSE
  /\ regenerateHidden = TRUE
  /\ tenMoreHidden = TRUE
  /\ viewedCards = {}
  /\ currentDeck = NullDeck
  /\ currentTopic = ""
  /\ loadingInterval = 0
  /\ usedTerms = {}
  /\ flashcardsContainer = <<>>
  /\ overviewText = InitialOverview
  /\ errorMessage = StatusReady
  /\ ringLabel = RingAI
  /\ localStorage =
       saveSession("bio", DeckOf(<<Flashcard("Mitosis")>>), {}, {"mitosis"}, EmptyStorage)
  /\ bodyClassName = MarkupClass
  /\ study_deck_theme = NoThemeItem
  /\ intervals = {}
  /\ inflight = {}
  /\ issued = 0
  /\ enterPending = 0
  /\ lastOp = Op("start")
  /\ lastSaved = Saved("bio", DeckOf(<<Flashcard("Mitosis")>>), {}, {"mitosis"}, NothingSaved)

ReplaceNext ==
  \/ init
  \/ \E text \in ReplaceTexts : GenerateClick(text)
  \/ \E text \in ReplaceTexts : RegenerateClick(text)
  \/ \E r \in inflight : \E resp \in ReplaceResponses : GenerateSettle(r, resp)
  \/ TenMoreClick
  \/ \E r \in inflight : \E resp \in ReplaceResponses : TenMoreSettle(r, resp)
  \/ MoreInfoClick
  \/ \E r \in inflight : \E resp \in InfoResponses : MoreInfoSettle(r, resp)
  \/ \E k \in 1..Len(flashcardsContainer) : CardClick(k)

ReplaceSpec == ReplaceInit /\ [][ReplaceNext]_vars

----------------------------------------------------------------------------
\* The theme toggle beside generations: clicks on the toggle, generate on
\* one subject, answers that fail or bring one card, clicks on the cards,
\* clear and loads of the page.

ThemeNext ==
  \/ themeToggle
  \/ init
  \/ \E text \in SimTexts : GenerateClick(text)
  \/ \E r \in inflight : \E resp \in SimResponses : GenerateSettle(r, resp)
  \/ \E k \in 1..Len(flashcardsContainer) : CardClick(k)
  \/ performDeepClear

ThemeSpec == Init /\ [][ThemeNext]_vars

----------------------------------------------------------------------------
\* Properties

GenerationsInFlight == {r \in inflight : r.kind \in {"generate", "regenerate"}}

\* C1: at most one generate or regenerate request is in flight, whatever
\* the order of generate, regenerate, extend, clear and settlements.
OneGenerationInFlight == Cardinality(GenerationsInFlight) <= 1

\* C2: every viewed index is a position of the current deck, and without a
\* deck nothing is viewed.
ViewedWithinDeck ==
  /\ \A i \in viewedCards : 0 <= i /\ i < Len(currentDeck.flashcards)
  /\ ~currentDeck.present => viewedCards = {}

\* The last card of a deck of two or more has just been clicked and all
\* but possibly some are viewed.
ViewedLastCard ==
  /\ lastOp.op = "card click"
  /\ Len(currentDeck.flashcards) >= 2
  /\ lastOp.index = Len(currentDeck.flashcards) - 1
  /\ Cardinality(viewedCards) >= 2

\* C3: a generate, regenerate or extend request whose answer is not valid
\* JSON leaves the deck as it is, sets an error message and clears the busy
\* flag of its control.
MalformedJsonSurfaced ==
  [][(lastOp'.answer = "malformed" /\ lastOp'.kind \in {"generate", "regenerate", "tenMore"})
       => /\ currentDeck' = currentDeck
          /\ errorMessage'.kind = "API Error"
          /\ lastOp'.kind = "generate" => ~generateDisabled'
          /\ lastOp'.kind = "regenerate" => ~regenerateDisabled'
          /\ lastOp'.kind = "tenMore" => ~tenMoreDisabled']_vars

\* C4: right after a successful generate or regenerate the current deck is
\* the parsed answer, the container shows its cards and no other, and no
\* card is viewed.
GenerateReplacesDeck ==
  lastOp.op = "generate: done" =>
    /\ currentDeck = lastOp.data
    /\ viewedCards = {}
    /\ Len(flashcardsContainer) = Len(lastOp.data.flashcards)
    /\ \A i \in 1..Len(flashcardsContainer) :
         flashcardsContainer[i].card = lastOp.data.flashcards[i]

\* A generation has just succeeded with cards while cards of the deck
\* before it were viewed.
ReplacedViewedDeck ==
  /\ lastOp.op = "generate: done"
  /\ lastOp.had
  /\ Len(currentDeck.flashcards) >= 1

\* C5: a successful extend puts the k cards of the answer, in their order,
\* after the n cards of the deck, which stay where they are, and leaves
\* the viewed set alone.
ExtendAppends ==
  [][lastOp'.op = "ten more: done"
       => LET old == currentDeck.flashcards
              new == lastOp'.data.flashcards
              now == currentDeck'.flashcards
          IN /\ currentDeck.present
             /\ Len(now) = Len(old) + Len(new)
             /\ \A i \in 1..Len(old) : now[i] = old[i]
             /\ \A i \in 1..Len(new) : now[Len(old) + i] = new[i]
             /\ viewedCards' = viewedCards]_vars

\* An extend has just added two cards to a deck with viewed cards.
ExtendedViewedDeck ==
  /\ lastOp.op = "ten more: done"
  /\ Len(lastOp.data.flashcards) = 2
  /\ Len(currentDeck.flashcards) > 2
  /\ viewedCards # {}

\* C6: a click on a card whose index is not yet viewed adds the index,
\* recomputes the progress and saves the session; a click on a card already
\* viewed changes neither the viewed set nor the storage and saves nothing.
CardClickMarksOnce ==
  [][lastOp'.op = "card click"
       => LET i == lastOp'.index IN
          /\ i \in 0..(Len(currentDeck.flashcards) - 1)
          /\ IF i \notin viewedCards
             THEN /\ viewedCards' = viewedCards \cup {i}
                  /\ ringLabel' = PercentLabel(Cardinality(viewedCards'),
                                               Len(currentDeck.flashcards))
                  /\ lastOp'.wrote
                  /\ localStorage'.viewed.present
                  /\ NewSet(Parse(localStorage'.viewed.text)) = viewedCards'
             ELSE /\ viewedCards' = viewedCards
                  /\ localStorage' = localStorage
                  /\ ~lastOp'.wrote]_vars

\* A card that was viewed has just been clicked again.
ClickedViewedCard ==
  /\ lastOp.op = "card click"
  /\ ~lastOp.wrote
  /\ lastOp.index \in viewedCards
  /\ localStorage.viewed.present

\* C7: a load that finds the session saveSession stored restores the
\* topic, deck, viewed set and used terms that were given to saveSession.
SaveThenLoadRestores ==
  (lastOp.op = "load" /\ lastSaved.written) =>
    /\ currentTopic = lastSaved.topic
    /\ currentDeck = lastSaved.deck
    /\ viewedCards = lastSaved.viewed
    /\ usedTerms = lastSaved.used

\* A load has just restored a session with viewed cards and used terms.
RestoredSession ==
  /\ lastOp.op = "load"
  /\ lastSaved.written
  /\ viewedCards # {}
  /\ Cardinality(usedTerms) >= 2

AllSlotsAbsent ==
  /\ ~localStorage.session.present
  /\ ~localStorage.viewed.present
  /\ ~localStorage.used_terms.present

NothingRestored ==
  /\ ~currentDeck.present
  /\ currentTopic = ""
  /\ viewedCards = {}
  /\ usedTerms = {}
  /\ flashcardsContainer = <<>>

\* C8: clear leaves the three slots absent, and a load that follows it at
\* once restores nothing.
ClearThenLoadFindsNothing ==
  [][/\ lastOp'.op = "clear" => AllSlotsAbsent'
     /\ (lastOp.op = "clear" /\ lastOp'.op = "load")
          => (AllSlotsAbsent' /\ NothingRestored')]_vars

\* A load has just followed a clear that removed a stored session.
LoadedAfterClear ==
  /\ lastOp.op = "load"
  /\ lastOp.had

\* C9: after a successful regenerate the used terms hold every term they
\* held when regenerate was invoked and the lowercased terms of the new deck.
RegeneratePreservesUsedTerms ==
  [][\A r \in inflight :
       (r.kind = "regenerate" /\ r \notin inflight' /\ lastOp'.op = "generate: done")
         => (r.usedAtInvoke \cup LowerTerms(currentDeck'.flashcards)) \subseteq usedTerms']_vars

\* C10: while the topic stays the same and clear is not invoked, no step
\* removes a used term.
UsedTermsGrowWithinTopic ==
  [][(currentTopic' = currentTopic /\ lastOp'.op \notin {"clear", "load"})
       => usedTerms \subseteq usedTerms']_vars

\* C11: a generate or regenerate that changes the current topic to another
\* one empties the used terms before any term of the new topic is added.
TopicChangeClearsUsedTerms ==
  [][(lastOp'.op = "generate: issued" /\ currentTopic' # currentTopic)
       => usedTerms' = {}]_vars

\* C12: after a flip that views a card, a successful generation, an extend
\* and a load the ring shows round(viewed / total * 100), as the script's
\* arithmetic evaluates it; viewing a card never lowers it; and it shows
\* 100 only when every card of the deck is viewed.
ProgressIsRoundedShare ==
  [][(/\ lastOp'.op \in {"card click", "generate: done", "ten more: done", "load"}
      /\ lastOp'.op = "card click" => lastOp'.index \notin viewedCards
      /\ currentDeck'.present
      /\ Len(currentDeck'.flashcards) > 0)
       => LET total == Len(currentDeck'.flashcards)
              size == Cardinality(viewedCards')
          IN /\ ringLabel' = PercentLabel(size, total)
             /\ (lastOp'.op = "card click" /\ ringLabel.text = "%")
                  => ringLabel'.pct >= ringLabel.pct
             /\ ringLabel'.pct = 100 => size = total]_vars

\* C13: the interval of the loading simulation is cleared when the request
\* settles and when clear is invoked: while no generate or regenerate
\* request is in flight no interval is set, so no tick can run, and an
\* interval that is set is the one loadingInterval can still clear.
NoTimerWithoutGeneration ==
  /\ lastOp.op \in {"generate: done", "generate: failed", "clear"} => intervals = {}
  /\ GenerationsInFlight = {} => (intervals = {} /\ loadingInterval = 0)
  /\ \A t \in intervals : t.id = loadingInterval

\* A request has just failed after ticks of its simulation, and nothing is
\* in flight.
FailedAfterTicks ==
  /\ lastOp.op = "generate: failed"
  /\ errorMessage.kind = "API Error"
  /\ ringLabel.text = "%"
  /\ ringLabel.pct >= 2
  /\ inflight = {}

\* C14: a generate, regenerate or extend request whose answer has no text
\* ends as a failure: an error message is set, the deck is as it was, and
\* the answer is not taken as a result with zero cards.
EmptyPayloadSurfaced ==
  [][(lastOp'.answer = "empty" /\ lastOp'.kind \in {"generate", "regenerate", "tenMore"})
       => /\ lastOp'.op \in {"generate: failed", "ten more: failed"}
          /\ errorMessage'.kind = "API Error"
          /\ currentDeck' = currentDeck]_vars

\* A slot that init reads holds a text that does not deserialize to the
\* shape saveSession writes.
UnreadableSlot ==
  /\ localStorage.session.present
  /\ \/ SyntaxErrorIn(localStorage.session.text)
     \/ ~Parse(localStorage.session.text).deck.present
     \/ ~Parse(localStorage.session.text).deck.hasFlashcards
     \/ \E slot \in {localStorage.viewed, localStorage.used_terms} :
          slot.present /\ (SyntaxErrorIn(slot.text) \/ NotIterable(slot.text))

\* C15: a load that meets a stored entry that does not deserialize or has
\* another shape leaves the state at its defaults: no deck, empty topic,
\* nothing viewed, no used terms.
LoadFailureLeavesDefaults ==
  (lastOp.op = "load" /\ UnreadableSlot)
    => /\ ~currentDeck.present
       /\ currentTopic = ""
       /\ viewedCards = {}
       /\ usedTerms = {}

\* The steps in which handleGenerate ran up to a return or to its await.
GenerateOps == {"generate: no subject", "generate: busy", "generate: issued"}

\* C16 as stated: a generate with a blank topic input issues no request
\* and changes neither the page, nor the script's state, nor the storage.
BlankInputRejected ==
  [][(lastOp'.op \in GenerateOps /\ lastOp'.had)
       => /\ lastOp'.op # "generate: issued"
          /\ UNCHANGED <<page, session, localStorage, intervals, inflight, issued>>]_vars

\* C16, amended: a generate with a blank topic input while there is no
\* current topic is rejected: no request is issued and neither the page,
\* nor the script's state, nor the storage changes.
BlankWithoutTopicRejected ==
  [][(lastOp'.op \in GenerateOps /\ lastOp'.had /\ currentTopic = "")
       => /\ lastOp'.op = "generate: no subject"
          /\ UNCHANGED <<page, session, localStorage, intervals, inflight, issued>>]_vars

\* A generate with a blank input has just been rejected while a request
\* issued before a clear is still in flight.
RejectedBlankInput ==
  /\ lastOp.op = "generate: no subject"
  /\ lastOp.had
  /\ currentTopic = ""
  /\ inflight # {}

\* C17: a request that settles, by success or by failure, leaves the
\* control that issued it enabled, and with no request in flight none of
\* the four controls is disabled.
SettledRequestsReleaseControls ==
  /\ lastOp.op \in {"generate: done", "generate: failed", "ten more: done",
                    "ten more: failed", "more info: done", "more info: failed"}
       => /\ lastOp.kind = "generate" => ~generateDisabled
          /\ lastOp.kind = "regenerate" => ~regenerateDisabled
          /\ lastOp.kind = "tenMore" => ~tenMoreDisabled
          /\ lastOp.kind = "moreInfo" => ~moreInfoDisabled
  /\ inflight = {}
       => (~generateDisabled /\ ~regenerateDisabled
           /\ ~tenMoreDisabled /\ ~moreInfoDisabled)

\* The last request in flight has just failed, on an answer that is not
\* JSON or that lacks a term, after another request had settled.
LastRequestFailed ==
  /\ lastOp.op \in {"generate: failed", "ten more: failed", "more info: failed"}
  /\ lastOp.answer \in {"malformed", "json", "reject"}
  /\ inflight = {}
  /\ issued >= 2

\* C18: the system instruction of a regenerate or extend request built
\* with a non-empty set of used terms has a forbid-reuse clause, and the
\* clause lists every term of the set.
ForbidClauseListsUsedTerms ==
  \A r \in inflight :
    (r.kind \in {"regenerate", "tenMore"} /\ r.usedAtInvoke # {})
      => /\ r.avoidListStr # <<>>
         /\ Head(r.avoidListStr) \in {ForbidGenerated, ForbidThese}
         /\ \A term \in r.usedAtInvoke :
              \E i \in 2..Len(r.avoidListStr) : r.avoidListStr[i] = term

\* A regenerate request built with two used terms is in flight.
RegenerateWithTwoUsedTerms ==
  \E r \in inflight :
    /\ r.kind = "regenerate"
    /\ r.usedAtInvoke = {"mitosis", "atp"}
    /\ usedTerms = r.usedAtInvoke

\* C19: after a generate or regenerate request has failed the ring shows
\* no progress (0%, or the idle label), not the last simulated percent.
FailureResetsProgress ==
  lastOp.op = "generate: failed" => (ringLabel = RingPercent(0) \/ ringLabel = RingAI)

\* C20: the simulation starts at 0 percent, a tick never lowers its
\* progress, and the progress and the percent a tick shows stay within
\* 0..99.
SimulationWithinBounds ==
  [][/\ lastOp'.op = "generate: issued"
          => /\ ringLabel' = RingPercent(0)
             /\ \A t \in intervals' \ intervals : t.progress = 0
     /\ \A t \in intervals' : 0 <= t.progress /\ t.progress <= 99 * StepsPerPercent
     /\ lastOp'.op = "tick"
          => /\ ringLabel'.text = "%"
             /\ ringLabel'.pct \in 0..99
             /\ \A t \in intervals : \A u \in intervals' :
                  t.id = u.id => (t.progress <= u.progress /\ Floor(t.progress) <= Floor(u.progress))
             /\ \E u \in intervals' : ringLabel'.pct = Floor(u.progress)]_vars

\* A tick has just run on a simulation that is at its cap.
TickAtCap ==
  /\ lastOp.op = "tick"
  /\ ringLabel = RingPercent(99)
  /\ errorMessage.kind = "Polishing..."
  /\ \E t \in intervals : t.progress = 99 * StepsPerPercent

\* The slots that are present hold what saveSession writes.
ReadableSlots ==
  /\ localStorage.session.present =>
       /\ ~SyntaxErrorIn(localStorage.session.text)
       /\ Parse(localStorage.session.text).deck.present
       /\ Parse(localStorage.session.text).deck.hasFlashcards
  /\ localStorage.viewed.present =>
       ~(SyntaxErrorIn(localStorage.viewed.text) \/ NotIterable(localStorage.viewed.text))
  /\ localStorage.used_terms.present =>
       ~(SyntaxErrorIn(localStorage.used_terms.text)
           \/ NotIterable(localStorage.used_terms.text))

\* C21: whichever of the three slots are present, a load ends with the
\* controls enabled; the part of the state whose slot is absent is at its
\* empty default (with no session nothing at all is restored); and with
\* readable slots every part whose slot is present beside the session is
\* restored from it.
LoadToleratesSlotSubsets ==
  lastOp.op = "load" =>
    /\ ~generateDisabled /\ ~regenerateDisabled /\ ~tenMoreDisabled /\ ~moreInfoDisabled
    /\ ~localStorage.session.present => (NothingRestored /\ regenerateHidden /\ tenMoreHidden)
    /\ ~localStorage.viewed.present => viewedCards = {}
    /\ ~localStorage.used_terms.present => usedTerms = {}
    /\ (localStorage.session.present /\ ReadableSlots) =>
         /\ currentDeck = Parse(localStorage.session.text).deck
         /\ currentTopic = Parse(localStorage.session.text).topic
         /\ Len(flashcardsContainer) = Len(currentDeck.flashcards)
         /\ localStorage.viewed.present =>
              viewedCards = NewSet(Parse(localStorage.viewed.text))
         /\ localStorage.used_terms.present =>
              usedTerms = NewSet(Parse(localStorage.used_terms.text))

\* A load has just found a session of two cards and the used terms, with
\* the viewed slot absent.
LoadedWithoutViewedSlot ==
  /\ lastOp.op = "load"
  /\ localStorage.session.present
  /\ ~localStorage.viewed.present
  /\ localStorage.used_terms.present
  /\ Len(currentDeck.flashcards) = 2
  /\ usedTerms = {"mitosis", "atp"}

\* The steps in which the continuation of a handler ran on a settled request.
SettleOps ==
  {"generate: done", "generate: failed", "ten more: done", "ten more: failed",
   "more info: done", "more info: failed"}

\* C22: the settlement of a request that was in flight when clear was
\* invoked restores no deck, topic or used term and writes nothing to the
\* storage.  A request is in flight with the current topic empty only when
\* clear came after it was issued: every handler that issues one needs or
\* sets a topic, and a load leaves no request behind.
ClearIsFinal ==
  [][(currentTopic = "" /\ lastOp'.op \in SettleOps)
       => UNCHANGED <<currentDeck, currentTopic, usedTerms, localStorage>>]_vars

\* C23: the answer to an extend or more-info request issued before a
\* generation replaced the deck adds no card, no overview text and no used
\* term to the new deck.
LateResponseNotApplied ==
  [][\A r \in inflight :
       (/\ r.kind \in {"tenMore", "moreInfo"}
        /\ r.deckReplaced
        /\ lastOp'.op \in SettleOps
        /\ lastOp'.kind = r.kind)
         => UNCHANGED <<currentDeck, flashcardsContainer, overviewText, usedTerms>>]_vars

\* C24: a generate or regenerate request that fails leaves the deck and
\* the viewed set as they are and the used terms as they were when the
\* request was invoked, and when it fails right after it was issued the
\* current topic is the one it was invoked with.
FailedGenerationKeepsSession ==
  [][\A r \in inflight :
       (/\ r.kind \in {"generate", "regenerate"}
        /\ r \notin inflight'
        /\ lastOp'.op = "generate: failed")
         => /\ UNCHANGED <<currentDeck, viewedCards>>
            /\ usedTerms' = r.usedAtInvoke
            /\ lastOp.op = "generate: issued" => currentTopic' = lastOp.topicBefore]_vars

\* C25: with a deck current and no request in flight, the used terms hold
\* the lowercased term of every card of the deck that has a term.
UsedTermsCoverDeck ==
  (currentDeck.present /\ inflight = {})
    => \A i \in 1..Len(currentDeck.flashcards) :
         currentDeck.flashcards[i].term # Undefined
           => ToLowerCase(currentDeck.flashcards[i].term) \in usedTerms

\* C26: an extend request that fails, partway through its answer
\* included, leaves the deck, the cards shown, the used terms and the
\* stored session as they were.
ExtendAllOrNothing ==
  [][lastOp'.op = "ten more: failed"
       => UNCHANGED <<currentDeck, flashcardsContainer, usedTerms, localStorage>>]_vars

\* C27: the ring never shows a percent that is not a number, a percent it
\* shows is within 0..100, and 'Mastery Achieved!' is on the status line
\* only with a deck of at least one card whose cards are all viewed.
ProgressDefined ==
  /\ ringLabel \notin {RingNaN, RingInfinity}
  /\ ringLabel.text = "%" => ringLabel.pct \in 0..100
  /\ errorMessage = StatusMastery
       => /\ currentDeck.present
          /\ Len(currentDeck.flashcards) >= 1
          /\ Cardinality(viewedCards) = Len(currentDeck.flashcards)

\* C28: with a deck current and no request in flight, the stored bundle
\* holds the current topic and deck, the stored viewed list the viewed set
\* and the stored used-terms list the used terms.
StoredEqualsMemory ==
  (currentDeck.present /\ inflight = {})
    => /\ localStorage.session.present
       /\ localStorage.viewed.present
       /\ localStorage.used_terms.present
       /\ ReadableSlots
       /\ Parse(localStorage.session.text) = [topic |-> currentTopic, deck |-> currentDeck]
       /\ NewSet(Parse(localStorage.viewed.text)) = viewedCards
       /\ NewSet(Parse(localStorage.used_terms.text)) = usedTerms

\* The two themes of the page.
Themes == {"dark-mode", "light-mode"}

\* C29: after every step the class of the body is one of the two themes
\* and so is the stored theme when one is stored; a click on the toggle
\* changes the theme to the other of the two and stores it, so that two
\* clicks lead back to the theme they started from.
ThemeAlternates ==
  [][/\ bodyClassName' \in Themes
     /\ study_deck_theme'.present => study_deck_theme'.text \in Themes
     /\ lastOp'.op = "theme toggle"
          => /\ bodyClassName' \in Themes \ {bodyClassName}
             /\ study_deck_theme' = ThemeItem(bodyClassName')]_vars

====
